---- MODULE Spec2Model ----
(***************************************************************************)
(* Model of poster.py: the rotation scheduler of main(), the language      *)
(* selection rule choose_language(), and the state store load_state() /    *)
(* save_state().  One run of main() is a process that loads the state,     *)
(* makes POSTS_PER_RUN attempts and exits; runs follow each other.         *)
(* Outbound calls (send_photo, send_message) either return or raise.       *)
(* Cursors are 0-based as in the source; sequences are indexed with +1.    *)
(***************************************************************************)
EXTENDS Integers, Sequences, FiniteSets, TLC

\* ---------------------------------------------------------------- bounds
MaxRuns == 2
MaxUnits == 2
MaxImages == 3
MaxPostsPerRun == 4
MaxRatio == 1
MaxTokens == 5
MaxPackLen == 4
MaxSegTokens == 5
MaxLoadedCounter == 1

\* ------------------------------------------------------ program constants
CAP_LEN == 1000
MAX_LEN == 4000

\* language_ratio values of config.yaml: pairs with a positive sum (a zero
\* sum makes choose_language divide by zero), the default [3,1], and a list
\* shorter than 2, which choose_language replaces by (3,1)
Ratios ==
    ({<<h, e>> : h \in 0..MaxRatio, e \in 0..MaxRatio} \ {<<0, 0>>})
        \cup {<<3, 1>>, <<2>>}

\* A PostUnit as main() sees it: its character length (len(msg)) and the
\* number of chunks split_and_send_text sends for it with max_len = 4000.
ShortMsg == [len |-> 30, nchunks |-> 1]
LongMsg == [len |-> MAX_LEN + 1000, nchunks |-> 2]

\* split_msgs(fetch_doc_text(doc)): documents of n units, short and long
\* units alternating; the Hindi documents start with a short unit, the
\* English ones with a long unit
Doc(n, first) ==
    [i \in 1..n |-> IF (i % 2 = 1) = (first = "short") THEN ShortMsg ELSE LongMsg]
HindiDocs == {Doc(n, "short") : n \in 0..MaxUnits}
EngDocs == {Doc(n, "long") : n \in 0..MaxUnits}

VARIABLES
    RATIO,           \* cfg posting.language_ratio
    POSTS_PER_RUN,   \* cfg posting.posts_per_run
    PREF_CAPTION,    \* cfg content.prefer_caption_for_short_posts
    hindi_msgs,      \* split_msgs(fetch_doc_text(HINDI_DOC))
    eng_msgs,        \* split_msgs(fetch_doc_text(EN_DOC))
    images,          \* gather_images(IMAGE_ROOT)
    state_file,      \* STATE_FILE on disk
    state,           \* the dict `state` of the running main()
    pc,              \* position of the running main(); "idle" = no process
    attempt,         \* loop variable of `for _ in range(POSTS_PER_RUN)`
    sel,             \* lang / unit index / image index of the attempt
    sent,            \* chunks of the unit sent so far in this attempt
    runs,            \* number of runs started
    fetch_err,       \* the document whose fetch raised in the last run started
    other,           \* a second run of main() overlapping the first
    io,              \* argument and result of a helper applied on its own
    before,          \* history: state, file and call count at attempt start
    outcome,         \* history: how the last attempt ended
    calls,           \* history: number of outbound calls issued
    posted,          \* history: units fully published, in order
    chosen,          \* history: languages selected in the current run
    failed,          \* history: some outbound call has raised
    out,             \* history: the outbound calls of the current attempt
    skips            \* history: number of language skips performed

cfgvars == <<RATIO, POSTS_PER_RUN, PREF_CAPTION, hindi_msgs, eng_msgs, images>>
histvars == <<before, outcome, calls, posted, chosen, failed>>
auxvars == <<fetch_err, other, io>>
vars == <<RATIO, POSTS_PER_RUN, PREF_CAPTION, hindi_msgs, eng_msgs, images,
          state_file, state, pc, attempt, sel, sent, runs, fetch_err, other, io,
          before, outcome, calls, posted, chosen, failed, out, skips>>

\* --------------------------------------------------------------- helpers
ZeroState == [h_msg_index |-> 0, e_msg_index |-> 0, img_index |-> 0, lang_counter |-> 0]

NoSel == [lang |-> "none", mi |-> 0, ii |-> 0]

FileOk(s) == [kind |-> "ok", s |-> s]
FileAbsent == [kind |-> "absent", s |-> ZeroState]
FileCorrupt == [kind |-> "corrupt", s |-> ZeroState]

\* fetch_doc_text: the txt export is used when it answers 200 with non-blank
\* text, else the html export when it answers 200, else an exception is raised
fetch_doc_text(txt, html) ==
    IF txt = "ok" THEN "txt"
    ELSE IF html = "ok" THEN "html"
    ELSE "raise"

\* variant: the stored dict is ignored and every run starts from zero
load_state_fresh(f) == ZeroState

\* load_state: the stored dict, or a fresh all-zero dict written to disk
load_state(f) == IF f.kind = "ok" THEN f.s ELSE ZeroState

\* variant: a cursor already on disk is never lowered by a write
save_state_merged(s) ==
    FileOk([k \in DOMAIN s |->
              IF state_file.kind = "ok" /\ state_file.s[k] > s[k]
              THEN state_file.s[k] ELSE s[k]])

\* save_state: the whole dict replaces the file
save_state(s) == FileOk(s)

\* h_ratio, e_ratio = RATIO if len(RATIO) >= 2 else (3,1)
RatioPair == IF Len(RATIO) >= 2 THEN RATIO ELSE <<3, 1>>

\* variant: off by one in the comparison with h_ratio
choose_language_le(s) ==
    LET h_ratio == RatioPair[1]
        e_ratio == RatioPair[2]
        total == h_ratio + e_ratio
        idx == s.lang_counter % total
    IN  IF idx <= h_ratio THEN "hindi" ELSE "english"

choose_language(s) ==
    LET h_ratio == RatioPair[1]
        e_ratio == RatioPair[2]
        total == h_ratio + e_ratio
        idx == s.lang_counter % total
    IN  IF idx < h_ratio THEN "hindi" ELSE "english"

msgs_of(lang) == IF lang = "hindi" THEN hindi_msgs ELSE eng_msgs
mi_key_of(lang, s) == IF lang = "hindi" THEN s.h_msg_index ELSE s.e_msg_index

\* variant: the image cursor is left behind when an English unit is posted
advance_post_noimg(s, lang) ==
    IF lang = "hindi"
    THEN [s EXCEPT !.h_msg_index = @ + 1, !.img_index = @ + 1, !.lang_counter = @ + 1]
    ELSE [s EXCEPT !.e_msg_index = @ + 1, !.lang_counter = @ + 1]

\* variant: a post moves lang_counter by two
advance_post_counter_twice(s, lang) ==
    IF lang = "hindi"
    THEN [s EXCEPT !.h_msg_index = @ + 1, !.img_index = @ + 1, !.lang_counter = @ + 2]
    ELSE [s EXCEPT !.e_msg_index = @ + 1, !.img_index = @ + 1, !.lang_counter = @ + 2]

\* state[mi_key] += 1; state["img_index"] += 1; state["lang_counter"] += 1
advance_post(s, lang) ==
    IF lang = "hindi"
    THEN [s EXCEPT !.h_msg_index = @ + 1, !.img_index = @ + 1, !.lang_counter = @ + 1]
    ELSE [s EXCEPT !.e_msg_index = @ + 1, !.img_index = @ + 1, !.lang_counter = @ + 1]

\* variant: a skip also consumes an image
advance_skip_img(s) == [s EXCEPT !.lang_counter = @ + 1, !.img_index = @ + 1]

\* variant: a skip leaves lang_counter where it is
advance_skip_stuck(s) == s

\* state["lang_counter"] += 1
advance_skip(s) == [s EXCEPT !.lang_counter = @ + 1]

\* variant: the caption limit is not looked at
as_caption_any_length(msg) == PREF_CAPTION

\* PREF_CAPTION and len(msg) <= CAP_LEN
as_caption(msg) == PREF_CAPTION /\ msg.len <= CAP_LEN

cur_msg == msgs_of(sel.lang)[sel.mi + 1]

\* send_photo(token, channel, img, caption=msg or None): the call and whether
\* it returned
PhotoCall(ii, with_caption, ok) ==
    [op |-> "sendPhoto", arg |-> ii, caption |-> with_caption, ok |-> ok]

\* send_message(token, channel, part) for chunk number k of the unit
TextCall(k, ok) ==
    [op |-> "sendMessage", arg |-> k, caption |-> FALSE, ok |-> ok]

\* no second run, no helper under test
NoOther == [pc |-> "off", state |-> ZeroState, attempt |-> 0, sel |-> NoSel,
            sent |-> 0, posted |-> <<>>]
NoIO == [op |-> "none"]

Snapshot == [s |-> state, file |-> state_file, calls |-> calls]

\* ------------------------------------------------------------------ Init
Init ==
    /\ RATIO \in Ratios
    /\ POSTS_PER_RUN \in 1..MaxPostsPerRun
    /\ PREF_CAPTION \in BOOLEAN
    /\ hindi_msgs \in HindiDocs
    /\ eng_msgs \in EngDocs
    /\ images \in {[i \in 1..n |-> i - 1] : n \in 0..MaxImages}
    /\ state_file = FileAbsent
    /\ state = ZeroState
    /\ pc = "idle"
    /\ attempt = 0
    /\ sel = NoSel
    /\ sent = 0
    /\ runs = 0
    /\ fetch_err = "none"
    /\ other = NoOther
    /\ io = NoIO
    /\ out = <<>>
    /\ skips = 0
    /\ before = [s |-> ZeroState, file |-> FileAbsent, calls |-> 0]
    /\ outcome = "none"
    /\ calls = 0
    /\ posted = <<>>
    /\ chosen = <<>>
    /\ failed = FALSE

\* --------------------------------------------------------------- actions
\* main(), lines 193-197: a run starts and loads the state
main_start ==
    /\ pc = "idle"
    /\ runs < MaxRuns
    /\ runs' = runs + 1
    /\ chosen' = <<>>
    /\ fetch_err' = "none"
    /\ attempt' = 0
    /\ IF state_file.kind = "corrupt"
       THEN \* json.load raises: the process dies before the loop
            /\ pc' = "idle"
            /\ UNCHANGED <<state, state_file>>
       ELSE /\ state' = load_state(state_file)
            /\ state_file' = FileOk(load_state(state_file))
            /\ pc' = "loop"
    /\ UNCHANGED <<cfgvars, other, io, out, skips, sel, sent, before, outcome, calls, posted, failed>>

\* lines 194-195, 42: fetch_doc_text raises for one document; main() has no
\* handler around it, so the process ends before load_state and the loop
main_fetch_fails ==
    /\ pc = "idle"
    /\ runs < MaxRuns
    /\ \E lang \in {"hindi", "english"}, txt \in {"empty", "error"}, html \in {"ok", "error"} :
          /\ fetch_doc_text(txt, html) = "raise"
          /\ fetch_err' = lang
    /\ runs' = runs + 1
    /\ pc' = "idle"
    /\ UNCHANGED <<cfgvars, other, io, out, skips, state, state_file, attempt,
                   sel, sent, histvars>>

\* variant: a language skip ends the run (break for continue)
main_no_lang_breaks ==
    /\ pc = "loop"
    /\ attempt < POSTS_PER_RUN
    /\ LET lang == choose_language(state) IN
        /\ mi_key_of(lang, state) >= Len(msgs_of(lang))
        /\ state' = advance_skip(state)
        /\ state_file' = save_state(advance_skip(state))
        /\ sel' = [lang |-> lang, mi |-> mi_key_of(lang, state), ii |-> state.img_index]
        /\ chosen' = Append(chosen, lang)
    /\ before' = Snapshot
    /\ outcome' = "skip"
    /\ out' = <<>>
    /\ skips' = skips + 1
    /\ attempt' = attempt + 1
    /\ pc' = "idle"
    /\ UNCHANGED <<cfgvars, auxvars, sent, runs, calls, posted, failed>>

\* lines 204-208: the selected language has no unit left
main_no_lang ==
    /\ pc = "loop"
    /\ attempt < POSTS_PER_RUN
    /\ LET lang == choose_language(state) IN
        /\ mi_key_of(lang, state) >= Len(msgs_of(lang))
        /\ state' = advance_skip(state)
        /\ state_file' = save_state(advance_skip(state))
        /\ sel' = [lang |-> lang, mi |-> mi_key_of(lang, state), ii |-> state.img_index]
        /\ chosen' = Append(chosen, lang)
    /\ before' = Snapshot
    /\ outcome' = "skip"
    /\ out' = <<>>
    /\ skips' = skips + 1
    /\ attempt' = attempt + 1
    /\ UNCHANGED <<cfgvars, auxvars, pc, sent, runs, calls, posted, failed>>

\* variant: image exhaustion handled like a language skip
main_no_image_counts ==
    /\ pc = "loop"
    /\ attempt < POSTS_PER_RUN
    /\ LET lang == choose_language(state) IN
        /\ mi_key_of(lang, state) < Len(msgs_of(lang))
        /\ state.img_index >= Len(images)
        /\ sel' = [lang |-> lang, mi |-> mi_key_of(lang, state), ii |-> state.img_index]
        /\ chosen' = Append(chosen, lang)
    /\ state' = advance_skip(state)
    /\ state_file' = save_state(advance_skip(state))
    /\ before' = Snapshot
    /\ outcome' = "noimg"
    /\ out' = <<>>
    /\ attempt' = attempt + 1
    /\ UNCHANGED <<cfgvars, auxvars, skips, pc, sent, runs, calls, posted, failed>>

\* variant: the image check does not wait for the language check
main_no_image_first ==
    /\ pc = "loop"
    /\ attempt < POSTS_PER_RUN
    /\ LET lang == choose_language(state) IN
        /\ state.img_index >= Len(images)
        /\ sel' = [lang |-> lang, mi |-> mi_key_of(lang, state), ii |-> state.img_index]
        /\ chosen' = Append(chosen, lang)
    /\ before' = Snapshot
    /\ outcome' = "noimg"
    /\ out' = <<>>
    /\ attempt' = attempt + 1
    /\ UNCHANGED <<cfgvars, auxvars, skips, state, state_file, pc, sent, runs, calls, posted, failed>>

\* lines 209-211: no image left
main_no_image ==
    /\ pc = "loop"
    /\ attempt < POSTS_PER_RUN
    /\ LET lang == choose_language(state) IN
        /\ mi_key_of(lang, state) < Len(msgs_of(lang))
        /\ state.img_index >= Len(images)
        /\ sel' = [lang |-> lang, mi |-> mi_key_of(lang, state), ii |-> state.img_index]
        /\ chosen' = Append(chosen, lang)
    /\ before' = Snapshot
    /\ outcome' = "noimg"
    /\ out' = <<>>
    /\ attempt' = attempt + 1
    /\ UNCHANGED <<cfgvars, auxvars, skips, state, state_file, pc, sent, runs, calls, posted, failed>>

\* variant: the image cursor may stand one past the last image
main_select_past_end ==
    /\ pc = "loop"
    /\ attempt < POSTS_PER_RUN
    /\ LET lang == choose_language(state) IN
        /\ mi_key_of(lang, state) < Len(msgs_of(lang))
        /\ state.img_index <= Len(images)
        /\ sel' = [lang |-> lang, mi |-> mi_key_of(lang, state), ii |-> state.img_index]
        /\ chosen' = Append(chosen, lang)
    /\ before' = Snapshot
    /\ outcome' = "posting"
    /\ out' = <<>>
    /\ sent' = 0
    /\ pc' = "photo"
    /\ UNCHANGED <<cfgvars, auxvars, skips, state, state_file, attempt, runs, calls, posted, failed>>

\* lines 213-214: msg and img are selected, the photo call is next
main_select ==
    /\ pc = "loop"
    /\ attempt < POSTS_PER_RUN
    /\ LET lang == choose_language(state) IN
        /\ mi_key_of(lang, state) < Len(msgs_of(lang))
        /\ state.img_index < Len(images)
        /\ sel' = [lang |-> lang, mi |-> mi_key_of(lang, state), ii |-> state.img_index]
        /\ chosen' = Append(chosen, lang)
    /\ before' = Snapshot
    /\ outcome' = "posting"
    /\ out' = <<>>
    /\ sent' = 0
    /\ pc' = "photo"
    /\ UNCHANGED <<cfgvars, auxvars, skips, state, state_file, attempt, runs, calls, posted, failed>>

\* lines 217-220: send_photo returns
send_photo_ok ==
    /\ pc = "photo"
    /\ calls' = calls + 1
    /\ out' = Append(out, PhotoCall(sel.ii, as_caption(cur_msg), TRUE))
    /\ IF as_caption(cur_msg)
       THEN /\ pc' = "commit"
            /\ posted' = Append(posted, <<sel.lang, sel.mi, sel.ii>>)
       ELSE /\ pc' = "text"
            /\ UNCHANGED posted
    /\ UNCHANGED <<cfgvars, auxvars, skips, state, state_file, attempt, sel, sent, runs,
                   before, outcome, chosen, failed>>

\* variant: the error is swallowed and the loop goes on (continue for break)
send_photo_fail_continues ==
    /\ pc = "photo"
    /\ calls' = calls + 1
    /\ out' = Append(out, PhotoCall(sel.ii, as_caption(cur_msg), FALSE))
    /\ failed' = TRUE
    /\ outcome' = "fail"
    /\ attempt' = attempt + 1
    /\ pc' = "loop"
    /\ UNCHANGED <<cfgvars, auxvars, skips, state, state_file, sel, sent, runs,
                   before, posted, chosen>>

\* lines 117-118, 228-230: send_photo raises, the loop is left
send_photo_fail ==
    /\ pc = "photo"
    /\ calls' = calls + 1
    /\ out' = Append(out, PhotoCall(sel.ii, as_caption(cur_msg), FALSE))
    /\ failed' = TRUE
    /\ outcome' = "fail"
    /\ pc' = "idle"
    /\ UNCHANGED <<cfgvars, auxvars, skips, state, state_file, attempt, sel, sent, runs,
                   before, posted, chosen>>

\* lines 187-190: send_message returns for the next chunk
send_message_ok ==
    /\ pc = "text"
    /\ sent < cur_msg.nchunks
    /\ calls' = calls + 1
    /\ out' = Append(out, TextCall(sent, TRUE))
    /\ sent' = sent + 1
    /\ IF sent + 1 = cur_msg.nchunks
       THEN /\ pc' = "commit"
            /\ posted' = Append(posted, <<sel.lang, sel.mi, sel.ii>>)
       ELSE /\ pc' = "text"
            /\ UNCHANGED posted
    /\ UNCHANGED <<cfgvars, auxvars, skips, state, state_file, attempt, sel, runs,
                   before, outcome, chosen, failed>>

\* variant: the cursors advance although a chunk was not sent
send_message_fail_advances ==
    /\ pc = "text"
    /\ sent < cur_msg.nchunks
    /\ calls' = calls + 1
    /\ out' = Append(out, TextCall(sent, FALSE))
    /\ failed' = TRUE
    /\ outcome' = "fail"
    /\ pc' = "idle"
    /\ state' = advance_post(state, sel.lang)
    /\ state_file' = save_state(advance_post(state, sel.lang))
    /\ UNCHANGED <<cfgvars, auxvars, skips, attempt, sel, sent, runs, before, posted, chosen>>

\* lines 125-126, 228-230: send_message raises, the loop is left
send_message_fail ==
    /\ pc = "text"
    /\ sent < cur_msg.nchunks
    /\ calls' = calls + 1
    /\ out' = Append(out, TextCall(sent, FALSE))
    /\ failed' = TRUE
    /\ outcome' = "fail"
    /\ pc' = "idle"
    /\ UNCHANGED <<cfgvars, auxvars, skips, state, state_file, attempt, sel, sent, runs,
                   before, posted, chosen>>

\* variant: lang_counter is not part of the commit
main_commit_no_counter ==
    /\ pc = "commit"
    /\ state' = [advance_post(state, sel.lang) EXCEPT !.lang_counter = @ - 1]
    /\ state_file' = save_state([advance_post(state, sel.lang) EXCEPT !.lang_counter = @ - 1])
    /\ outcome' = "ok"
    /\ attempt' = attempt + 1
    /\ pc' = "loop"
    /\ UNCHANGED <<cfgvars, auxvars, out, skips, sel, sent, runs, before, calls, posted, chosen, failed>>

\* lines 223-227: the cursors advance and the state is saved
main_commit ==
    /\ pc = "commit"
    /\ state' = advance_post(state, sel.lang)
    /\ state_file' = save_state(advance_post(state, sel.lang))
    /\ outcome' = "ok"
    /\ attempt' = attempt + 1
    /\ pc' = "loop"
    /\ UNCHANGED <<cfgvars, auxvars, out, skips, sel, sent, runs, before, calls, posted, chosen, failed>>

\* line 199: range(POSTS_PER_RUN) is used up, main returns
main_end ==
    /\ pc = "loop"
    /\ attempt >= POSTS_PER_RUN
    /\ pc' = "idle"
    /\ UNCHANGED <<cfgvars, auxvars, out, skips, state, state_file, attempt, sel, sent, runs, histvars>>

\* the process is killed between two steps; its memory is lost
crash ==
    /\ pc \in {"loop", "photo", "text", "commit"}
    /\ pc' = "idle"
    /\ outcome' = "crash"
    /\ UNCHANGED <<cfgvars, auxvars, out, skips, state, state_file, attempt, sel, sent, runs,
                   before, calls, posted, chosen, failed>>

\* lines 101-102, 106-107: the process is killed inside a write of STATE_FILE,
\* after open(..., "w") truncated it and before the dump reached the disk
crash_in_save ==
    /\ \/ pc = "commit"
       \/ /\ pc = "loop"
          /\ attempt < POSTS_PER_RUN
          /\ mi_key_of(choose_language(state), state)
                >= Len(msgs_of(choose_language(state)))
    /\ state_file' = FileCorrupt
    /\ pc' = "idle"
    /\ outcome' = "crash"
    /\ UNCHANGED <<cfgvars, auxvars, out, skips, state, attempt, sel, sent, runs,
                   before, calls, posted, chosen, failed>>

Next ==
    \/ main_start
    \/ main_no_lang
    \/ main_no_image
    \/ main_select
    \/ send_photo_ok
    \/ send_photo_fail
    \/ send_message_ok
    \/ send_message_fail
    \/ main_commit
    \/ main_end

Spec == Init /\ [][Next]_vars

\* the runs in which no outbound call raises
NextNoFailure ==
    \/ main_start
    \/ main_no_lang
    \/ main_no_image
    \/ main_select
    \/ send_photo_ok
    \/ send_message_ok
    \/ main_commit
    \/ main_end

\* the scheduler keeps starting runs and a started run keeps going
LiveSpec == Init /\ [][NextNoFailure]_vars /\ WF_vars(NextNoFailure)

\* the same program when the process may be killed at any point
NextCrash == Next \/ crash \/ crash_in_save

SpecCrash == Init /\ [][NextCrash]_vars

\* the state files a run can find: cursors within the documents and images
LoadedStates ==
    {[h_msg_index |-> h, e_msg_index |-> e, img_index |-> i, lang_counter |-> c] :
        h \in 0..Len(hindi_msgs), e \in 0..Len(eng_msgs), i \in 0..Len(images),
        c \in 0..MaxLoadedCounter}

\* the program started on an existing state file, for strict alternation
InitLoaded ==
    /\ RATIO = <<1, 1>>
    /\ POSTS_PER_RUN \in 1..2
    /\ PREF_CAPTION \in BOOLEAN
    /\ hindi_msgs \in HindiDocs
    /\ eng_msgs \in EngDocs
    /\ images \in {[i \in 1..n |-> i - 1] : n \in 0..MaxImages}
    /\ state_file \in {FileOk(s) : s \in LoadedStates}
    /\ state = ZeroState
    /\ pc = "idle"
    /\ attempt = 0
    /\ sel = NoSel
    /\ sent = 0
    /\ runs = 0
    /\ fetch_err = "none"
    /\ other = NoOther
    /\ io = NoIO
    /\ out = <<>>
    /\ skips = 0
    /\ before = [s |-> ZeroState, file |-> state_file, calls |-> 0]
    /\ outcome = "none"
    /\ calls = 0
    /\ posted = <<>>
    /\ chosen = <<>>
    /\ failed = FALSE

SpecLoaded == InitLoaded /\ [][Next]_vars

\* the same program when a document export may be unavailable
NextFetch == Next \/ main_fetch_fails

SpecFetch == Init /\ [][NextFetch]_vars

\* ------------------------------------------------- two overlapping runs
\* what belongs to the first run only
firstvars == <<state, pc, attempt, sel, sent, runs, fetch_err, io, histvars, out, skips>>

other_msg == msgs_of(other.sel.lang)[other.sel.mi + 1]

\* line 197 in a second process: it loads whatever the file holds now
other_start ==
    /\ other.pc = "off"
    /\ IF state_file.kind = "corrupt"
       THEN /\ other' = [other EXCEPT !.pc = "done"]
            /\ UNCHANGED state_file
       ELSE /\ other' = [other EXCEPT !.pc = "loop", !.state = load_state(state_file)]
            /\ state_file' = FileOk(load_state(state_file))
    /\ UNCHANGED <<cfgvars, firstvars>>

\* lines 204-208 in the second process
other_no_lang ==
    /\ other.pc = "loop"
    /\ other.attempt < POSTS_PER_RUN
    /\ LET lang == choose_language(other.state) IN
        /\ mi_key_of(lang, other.state) >= Len(msgs_of(lang))
        /\ other' = [other EXCEPT !.state = advance_skip(@), !.attempt = @ + 1]
        /\ state_file' = save_state(advance_skip(other.state))
    /\ UNCHANGED <<cfgvars, firstvars>>

\* lines 209-211 in the second process
other_no_image ==
    /\ other.pc = "loop"
    /\ other.attempt < POSTS_PER_RUN
    /\ LET lang == choose_language(other.state) IN
        /\ mi_key_of(lang, other.state) < Len(msgs_of(lang))
        /\ other.state.img_index >= Len(images)
    /\ other' = [other EXCEPT !.attempt = @ + 1]
    /\ UNCHANGED <<cfgvars, firstvars, state_file>>

\* lines 213-214 in the second process
other_select ==
    /\ other.pc = "loop"
    /\ other.attempt < POSTS_PER_RUN
    /\ LET lang == choose_language(other.state) IN
        /\ mi_key_of(lang, other.state) < Len(msgs_of(lang))
        /\ other.state.img_index < Len(images)
        /\ other' = [other EXCEPT
                        !.sel = [lang |-> lang, mi |-> mi_key_of(lang, other.state),
                                 ii |-> other.state.img_index],
                        !.sent = 0, !.pc = "photo"]
    /\ UNCHANGED <<cfgvars, firstvars, state_file>>

\* lines 217-220 in the second process
other_send_photo_ok ==
    /\ other.pc = "photo"
    /\ other' = IF as_caption(other_msg)
                THEN [other EXCEPT !.pc = "commit",
                        !.posted = Append(@, <<other.sel.lang, other.sel.mi, other.sel.ii>>)]
                ELSE [other EXCEPT !.pc = "text"]
    /\ UNCHANGED <<cfgvars, firstvars, state_file>>

\* lines 187-190 in the second process
other_send_message_ok ==
    /\ other.pc = "text"
    /\ other.sent < other_msg.nchunks
    /\ other' = IF other.sent + 1 = other_msg.nchunks
                THEN [other EXCEPT !.sent = @ + 1, !.pc = "commit",
                        !.posted = Append(@, <<other.sel.lang, other.sel.mi, other.sel.ii>>)]
                ELSE [other EXCEPT !.sent = @ + 1]
    /\ UNCHANGED <<cfgvars, firstvars, state_file>>

\* lines 228-230 in the second process: a call raises, the process ends
other_send_fail ==
    /\ other.pc \in {"photo", "text"}
    /\ other' = [other EXCEPT !.pc = "done"]
    /\ UNCHANGED <<cfgvars, firstvars, state_file>>

\* lines 223-227 in the second process: its own dict goes to the file
other_commit ==
    /\ other.pc = "commit"
    /\ other' = [other EXCEPT !.state = advance_post(@, other.sel.lang),
                              !.attempt = @ + 1, !.pc = "loop"]
    /\ state_file' = save_state(advance_post(other.state, other.sel.lang))
    /\ UNCHANGED <<cfgvars, firstvars>>

\* line 199 in the second process
other_end ==
    /\ other.pc = "loop"
    /\ other.attempt >= POSTS_PER_RUN
    /\ other' = [other EXCEPT !.pc = "done"]
    /\ UNCHANGED <<cfgvars, firstvars, state_file>>

NextOther ==
    \/ other_start
    \/ other_no_lang
    \/ other_no_image
    \/ other_select
    \/ other_send_photo_ok
    \/ other_send_message_ok
    \/ other_send_fail
    \/ other_commit
    \/ other_end

\* two schedule triggers: the runs of the first process and one run of a
\* second process, interleaved step by step
NextRace == Next \/ NextOther

\* the configurations the overlap is explored for: strict alternation, at
\* most two posts per run, a full Hindi document
RaceInit ==
    /\ Init
    /\ RATIO = <<1, 1>>
    /\ POSTS_PER_RUN <= 2
    /\ Len(hindi_msgs) = MaxUnits

SpecRace == RaceInit /\ [][NextRace]_vars

\* ------------------------------------------------------- text helpers
\* A text is a sequence of characters (strings of length one).
NL == "\n"
CR == "\r"
SP == " "

\* what \s and str.strip() treat as whitespace
IsWS(c) == c \in {SP, NL, CR, "\t"}

MinOf(S) == CHOOSE x \in S : \A y \in S : x <= y
MaxOf(S) == CHOOSE x \in S : \A y \in S : x >= y

\* the characters of s at the positions I, in order
AtPositions(s, I) ==
    LET pos == [k \in 1..Cardinality(I) |->
                  CHOOSE i \in I : Cardinality({j \in I : j < i}) = k - 1]
    IN  [k \in 1..Cardinality(I) |-> s[pos[k]]]

\* the maximal stretches of s that avoid the positions in sep, in order
Pieces(s, sep) ==
    LET keep == (1..Len(s)) \ sep
        starts == {i \in keep : i = 1 \/ (i - 1) \in sep}
        EndOf(i) == MinOf({j \in i..Len(s) : j = Len(s) \/ (j + 1) \in sep})
        first == [k \in 1..Cardinality(starts) |->
                    CHOOSE i \in starts : Cardinality({j \in starts : j < i}) = k - 1]
    IN  [k \in 1..Cardinality(starts) |-> SubSeq(s, first[k], EndOf(first[k]))]

\* str.strip()
strip(s) ==
    LET solid == {i \in 1..Len(s) : ~IsWS(s[i])}
    IN  IF solid = {} THEN <<>> ELSE SubSeq(s, MinOf(solid), MaxOf(solid))

\* text.replace('\r\n', '\n').replace('\r', '\n')
normalize_newlines(s) ==
    LET keep == {i \in 1..Len(s) : ~(s[i] = CR /\ i < Len(s) /\ s[i + 1] = NL)}
        kept == AtPositions(s, keep)
    IN  [k \in 1..Len(kept) |-> IF kept[k] = CR THEN NL ELSE kept[k]]

\* re.sub(r'\n{3,}', '\n\n', text)
collapse_blank_lines(s) ==
    AtPositions(s, {i \in 1..Len(s) :
        ~(i > 2 /\ s[i] = NL /\ s[i - 1] = NL /\ s[i - 2] = NL)})

\* the positions re.split(r'\n{2,}', text) cuts out: runs of 2 or more newlines
BlankRuns(s) ==
    {i \in 1..Len(s) :
        /\ s[i] = NL
        /\ \/ i > 1 /\ s[i - 1] = NL
           \/ i < Len(s) /\ s[i + 1] = NL}

\* [p.strip() for p in re.split(r'\n{2,}', text) if p.strip()]
split_paragraphs(s) ==
    LET parts == Pieces(s, BlankRuns(s))
        stripped == [k \in 1..Len(parts) |-> strip(parts[k])]
    IN  SelectSeq(stripped, LAMBDA q : q # <<>>)

\* re.sub(r'\s*\n\s*', ' ', para).strip(): every whitespace run that holds a
\* newline becomes one space
clean_paragraph(para) ==
    LET RunLo(i) == MinOf({j \in 1..i : \A m \in j..i : IsWS(para[m])})
        RunHi(i) == MaxOf({j \in i..Len(para) : \A m \in i..j : IsWS(para[m])})
        InNLRun(i) == /\ IsWS(para[i])
                      /\ \E m \in RunLo(i)..RunHi(i) : para[m] = NL
        keep == {i \in 1..Len(para) : ~InNLRun(i) \/ RunLo(i) = i}
        kept == AtPositions([i \in 1..Len(para) |->
                               IF InNLRun(i) THEN SP ELSE para[i]], keep)
    IN  strip(kept)

\* str.split()
split_words(s) == Pieces(s, {i \in 1..Len(s) : IsWS(s[i])})

\* variant: the joining space is not counted when a word is added to a piece
RECURSIVE pack_words_uncounted_space(_, _, _, _)
pack_words_uncounted_space(words, k, acc, max_len) ==
    IF k > Len(words) THEN acc
    ELSE LET w == words[k]
             tmp == acc.tmp
         IN  IF Len(tmp) + Len(w) <= max_len
             THEN pack_words_uncounted_space(words, k + 1,
                    [acc EXCEPT !.tmp = strip(tmp \o <<SP>> \o w)], max_len)
             ELSE pack_words_uncounted_space(words, k + 1,
                    [chunks |-> IF tmp # <<>> THEN Append(acc.chunks, tmp)
                                ELSE acc.chunks,
                     tmp |-> w], max_len)

\* lines 155-162 and 175-182: the words of an overlong paragraph are packed
\* into pieces; acc holds the chunks so far and the piece under construction
RECURSIVE pack_words(_, _, _, _)
pack_words(words, k, acc, max_len) ==
    IF k > Len(words) THEN acc
    ELSE LET w == words[k]
             tmp == acc.tmp
         IN  IF Len(tmp) + (IF tmp # <<>> THEN 1 ELSE 0) + Len(w) <= max_len
             THEN pack_words(words, k + 1,
                    [acc EXCEPT !.tmp = strip(tmp \o <<SP>> \o w)], max_len)
             ELSE pack_words(words, k + 1,
                    [chunks |-> IF tmp # <<>> THEN Append(acc.chunks, tmp)
                                ELSE acc.chunks,
                     tmp |-> w], max_len)

\* variant: a full buffer is overwritten instead of being flushed
pack_paragraph_drops_buffer(st, para, max_len) ==
    LET para_clean == clean_paragraph(para)
        candidate == st.cur \o <<NL, NL>> \o para_clean
    IN  IF st.cur = <<>>
        THEN IF Len(para_clean) <= max_len
             THEN [st EXCEPT !.cur = para_clean]
             ELSE LET r == pack_words(split_words(para_clean), 1,
                                      [chunks |-> st.chunks, tmp |-> <<>>], max_len)
                  IN  [chunks |-> r.chunks,
                       cur |-> IF r.tmp # <<>> THEN r.tmp ELSE st.cur]
        ELSE IF Len(candidate) <= max_len
             THEN [st EXCEPT !.cur = candidate]
             ELSE IF Len(para_clean) <= max_len
                  THEN [chunks |-> st.chunks, cur |-> para_clean]
                  ELSE LET r == pack_words(split_words(para_clean), 1,
                                  [chunks |-> Append(st.chunks, st.cur),
                                   tmp |-> <<>>], max_len)
                       IN  [chunks |-> r.chunks, cur |-> r.tmp]

\* variant: paragraphs are joined in a chunk by one newline instead of two
pack_paragraph_one_newline(st, para, max_len) ==
    LET para_clean == clean_paragraph(para)
        candidate == st.cur \o <<NL>> \o para_clean
    IN  IF st.cur = <<>>
        THEN IF Len(para_clean) <= max_len
             THEN [st EXCEPT !.cur = para_clean]
             ELSE LET r == pack_words(split_words(para_clean), 1,
                                      [chunks |-> st.chunks, tmp |-> <<>>], max_len)
                  IN  [chunks |-> r.chunks,
                       cur |-> IF r.tmp # <<>> THEN r.tmp ELSE st.cur]
        ELSE IF Len(candidate) <= max_len
             THEN [st EXCEPT !.cur = candidate]
             ELSE IF Len(para_clean) <= max_len
                  THEN [chunks |-> Append(st.chunks, st.cur), cur |-> para_clean]
                  ELSE LET r == pack_words(split_words(para_clean), 1,
                                  [chunks |-> Append(st.chunks, st.cur),
                                   tmp |-> <<>>], max_len)
                       IN  [chunks |-> r.chunks, cur |-> r.tmp]

\* lines 146-183: one paragraph is added to the chunks and the buffer cur
pack_paragraph(st, para, max_len) ==
    LET para_clean == clean_paragraph(para)
        candidate == st.cur \o <<NL, NL>> \o para_clean
    IN  IF st.cur = <<>>
        THEN IF Len(para_clean) <= max_len
             THEN [st EXCEPT !.cur = para_clean]
             ELSE LET r == pack_words(split_words(para_clean), 1,
                                      [chunks |-> st.chunks, tmp |-> <<>>], max_len)
                  IN  [chunks |-> r.chunks,
                       cur |-> IF r.tmp # <<>> THEN r.tmp ELSE st.cur]
        ELSE IF Len(candidate) <= max_len
             THEN [st EXCEPT !.cur = candidate]
             ELSE IF Len(para_clean) <= max_len
                  THEN [chunks |-> Append(st.chunks, st.cur), cur |-> para_clean]
                  ELSE LET r == pack_words(split_words(para_clean), 1,
                                  [chunks |-> Append(st.chunks, st.cur),
                                   tmp |-> <<>>], max_len)
                       IN  [chunks |-> r.chunks, cur |-> r.tmp]

RECURSIVE pack_paragraphs(_, _, _, _)
pack_paragraphs(paras, k, st, max_len) ==
    IF k > Len(paras) THEN st
    ELSE pack_paragraphs(paras, k + 1, pack_paragraph(st, paras[k], max_len), max_len)

\* split_and_send_text, lines 137-185: the chunks it goes on to send
pack(text, max_len) ==
    LET paragraphs == split_paragraphs(
                        collapse_blank_lines(normalize_newlines(text)))
        st == pack_paragraphs(paragraphs, 1, [chunks |-> <<>>, cur |-> <<>>], max_len)
    IN  IF st.cur # <<>> THEN Append(st.chunks, st.cur) ELSE st.chunks

\* texts built from at most MaxTokens of these pieces
PackTokens == {<<"a">>, <<"a", SP>>, <<SP>>, <<NL>>, <<NL, NL>>, <<CR>>}

RECURSIVE Flatten(_)
Flatten(ts) == IF ts = <<>> THEN <<>> ELSE Head(ts) \o Flatten(Tail(ts))

TextsOver(tokens, n) ==
    {Flatten(ts) : ts \in UNION {[1..k -> tokens] : k \in 0..n}}

\* the scheduler at rest while a helper is applied on its own
AtRest ==
    /\ RATIO = <<3, 1>>
    /\ POSTS_PER_RUN = 1
    /\ PREF_CAPTION = FALSE
    /\ hindi_msgs = <<>>
    /\ eng_msgs = <<>>
    /\ images = <<>>
    /\ state_file = FileAbsent
    /\ state = ZeroState
    /\ pc = "idle"
    /\ attempt = 0
    /\ sel = NoSel
    /\ sent = 0
    /\ runs = 0
    /\ fetch_err = "none"
    /\ other = NoOther
    /\ out = <<>>
    /\ skips = 0
    /\ before = [s |-> ZeroState, file |-> FileAbsent, calls |-> 0]
    /\ outcome = "none"
    /\ calls = 0
    /\ posted = <<>>
    /\ chosen = <<>>
    /\ failed = FALSE

schedvars == <<cfgvars, state_file, state, pc, attempt, sel, sent, runs,
               fetch_err, other, histvars, out, skips>>

PackInit ==
    /\ AtRest
    /\ io \in {[op |-> "pack", text |-> t, max_len |-> m, done |-> FALSE, chunks |-> <<>>] :
                 t \in TextsOver(PackTokens, MaxTokens), m \in 1..MaxPackLen}

\* split_and_send_text(token, channel, text, max_len) up to line 185
pack_text ==
    /\ io.op = "pack"
    /\ ~io.done
    /\ io' = [io EXCEPT !.done = TRUE, !.chunks = pack(io.text, io.max_len)]
    /\ UNCHANGED schedvars

PackSpec == PackInit /\ [][pack_text]_vars

\* ----------------------------------------------------------- segmenter
BS == "\\"

\* the two alternatives of sep_pattern: [-..]{3,} (the hyphen stands for the
\* three dash characters of the class) and _{3,}
SameSepClass(c, d) == (c = "-" /\ d = "-") \/ (c = "_" /\ d = "_")

\* line 59, r'\n\s*(?:[-..]{3,}|_{3,})\s*\n': the position where the match that
\* starts at i ends, 0 when no match starts at i. The first \s* takes all the
\* whitespace up to the run, the run is maximal, and the last \s* gives back
\* characters until the match can end at a newline.
sep_match_end(s, i) ==
    IF s[i] # NL THEN 0
    ELSE LET solid == {j \in (i + 1)..Len(s) : ~IsWS(s[j])}
         IN  IF solid = {} THEN 0
             ELSE LET j == MinOf(solid)
                      k == MinOf({m \in j..(Len(s) + 1) :
                                    \/ m = Len(s) + 1
                                    \/ ~SameSepClass(s[j], s[m])})
                      w == MinOf({m \in k..(Len(s) + 1) :
                                    \/ m = Len(s) + 1
                                    \/ ~IsWS(s[m])})
                      nls == {m \in k..(w - 1) : s[m] = NL}
                  IN  IF k - j >= 3 /\ nls # {} THEN MaxOf(nls) ELSE 0

\* the positions re.split(sep_pattern, text) cuts out, scanning from p: the
\* leftmost match, then the leftmost match after its end
RECURSIVE sep_positions(_, _)
sep_positions(s, p) ==
    LET starts == {i \in p..Len(s) : sep_match_end(s, i) > 0}
    IN  IF starts = {} THEN {}
        ELSE LET i == MinOf(starts)
                 e == sep_match_end(s, i)
             IN  (i..e) \cup sep_positions(s, e + 1)

\* the positions text.split(d) cuts out, scanning from p
RECURSIVE delim_positions(_, _, _)
delim_positions(s, d, p) ==
    LET starts == {i \in p..(Len(s) - Len(d) + 1) : SubSeq(s, i, i + Len(d) - 1) = d}
    IN  IF starts = {} THEN {}
        ELSE LET i == MinOf(starts)
             IN  (i..(i + Len(d) - 1)) \cup delim_positions(s, d, i + Len(d))

\* line 64, decode('unicode_escape'), for the escapes a delimiter is written
\* with: backslash n is a newline, a doubled backslash is one backslash
RECURSIVE unicode_escape(_)
unicode_escape(s) ==
    IF s = <<>> THEN <<>>
    ELSE IF Len(s) >= 2 /\ s[1] = BS /\ s[2] = "n"
         THEN <<NL>> \o unicode_escape(SubSeq(s, 3, Len(s)))
    ELSE IF Len(s) >= 2 /\ s[1] = BS /\ s[2] = BS
         THEN <<BS>> \o unicode_escape(SubSeq(s, 3, Len(s)))
    ELSE <<s[1]>> \o unicode_escape(Tail(s))

\* [p.strip() for p in parts if p.strip()]
trimmed_parts(parts) ==
    SelectSeq([k \in 1..Len(parts) |-> strip(parts[k])], LAMBDA q : q # <<>>)

\* line 62: a delimiter is configured and is not the default
is_custom_delim(delim) ==
    /\ delim # <<>>
    /\ strip(delim) \notin {<<>>, <<BS, "n", BS, "n">>, <<NL, NL>>}

\* lines 44-76, with the configured SPLIT_DELIM as second argument
split_msgs(text, delim) ==
    IF text = <<>> \/ strip(text) = <<>> THEN <<>>
    ELSE LET s == normalize_newlines(text)
             by_delim == trimmed_parts(Pieces(s,
                            delim_positions(s, unicode_escape(delim), 1)))
             by_sep == trimmed_parts(Pieces(s, sep_positions(s, 1)))
             by_blank == trimmed_parts(Pieces(s, BlankRuns(s)))
         IN  IF is_custom_delim(delim) /\ by_delim # <<>> THEN by_delim
             ELSE IF Len(by_sep) > 1 THEN by_sep
             ELSE by_blank

\* documents built from at most MaxSegTokens of these pieces
SegTokens == {<<"a">>, <<SP>>, <<NL>>, <<NL, "-", "-", "-", NL>>,
              <<"_", "_", "_">>, <<"#">>}

\* line 20: the default delimiter, and a custom one written with escapes
SplitDelims == {<<NL, NL>>, <<BS, "n", "#", BS, "n">>}

SegInit ==
    /\ AtRest
    /\ io \in {[op |-> "split", text |-> t, SPLIT_DELIM |-> d, done |-> FALSE,
                units |-> <<>>] :
                 t \in TextsOver(SegTokens, MaxSegTokens), d \in SplitDelims}

\* split_msgs(text)
split_text ==
    /\ io.op = "split"
    /\ ~io.done
    /\ io' = [io EXCEPT !.done = TRUE, !.units = split_msgs(io.text, io.SPLIT_DELIM)]
    /\ UNCHANGED schedvars

SegSpec == SegInit /\ [][split_text]_vars

\* ================================================================ claims
Last(q) == q[Len(q)]

\* the selection rule of the specification, stated on a counter value
RuleLanguage(c) ==
    IF (c % (RatioPair[1] + RatioPair[2])) < RatioPair[1] THEN "hindi" ELSE "english"

\* ---------------------------------------------------------------- C1
CommitStep == pc = "commit" /\ pc' = "loop"

\* C1: a successful publish advances exactly the selected language's message
\* cursor, img_index and lang_counter by 1 each and persists the state; the
\* other language's cursor is unchanged.  h_index changes only in a step that
\* commits a fully posted Hindi unit, e_index only for an English one, and
\* img_index changes only by +1 in such a commit.
C1_SuccessAdvancesThree ==
    [][ /\ CommitStep =>
            /\ Last(posted) = <<sel.lang, sel.mi, sel.ii>>
            /\ state'.img_index = state.img_index + 1
            /\ state'.lang_counter = state.lang_counter + 1
            /\ sel.lang = "hindi" =>
                  /\ state'.h_msg_index = state.h_msg_index + 1
                  /\ state'.e_msg_index = state.e_msg_index
            /\ sel.lang = "english" =>
                  /\ state'.e_msg_index = state.e_msg_index + 1
                  /\ state'.h_msg_index = state.h_msg_index
            /\ state_file' = FileOk(state')
        /\ state'.h_msg_index # state.h_msg_index =>
            CommitStep /\ sel.lang = "hindi" /\ sel.mi = state.h_msg_index
        /\ state'.e_msg_index # state.e_msg_index =>
            CommitStep /\ sel.lang = "english" /\ sel.mi = state.e_msg_index
        /\ state'.img_index # state.img_index =>
            CommitStep /\ sel.ii = state.img_index
      ]_vars

\* an English unit and a Hindi unit have both been committed
C1_Witness ==
    /\ outcome = "ok"
    /\ sel.lang = "english"
    /\ state.e_msg_index = 1
    /\ state.h_msg_index >= 1
    /\ state_file = FileOk(state)

\* ---------------------------------------------------------------- C2
\* C2: the language of every attempt is Hindi iff
\* (lang_counter mod (h_ratio + e_ratio)) < h_ratio, else English, whatever
\* h_index, e_index and img_index are; for ratio (3,1) and lang_counter 0..7
\* the result is H,H,H,E,H,H,H,E.
C2_LanguageRule ==
    /\ sel.lang # "none" => sel.lang = RuleLanguage(before.s.lang_counter)
    /\ choose_language(state) = RuleLanguage(state.lang_counter)
    /\ \A h \in {0, MaxUnits}, e \in {0, MaxUnits}, i \in {0, MaxImages} :
         choose_language([state EXCEPT !.h_msg_index = h, !.e_msg_index = e,
                                       !.img_index = i])
            = choose_language(state)
    /\ RatioPair = <<3, 1>> =>
         [c \in 1..8 |-> choose_language([ZeroState EXCEPT !.lang_counter = c - 1])]
            = <<"hindi", "hindi", "hindi", "english",
                "hindi", "hindi", "hindi", "english">>

\* with ratio (3,1) the attempt at lang_counter 7 selected English
C2_Witness ==
    /\ RatioPair = <<3, 1>>
    /\ before.s.lang_counter = 7
    /\ sel.lang = "english"
    /\ Len(chosen) = 4

\* ---------------------------------------------------------------- C3
LangExhausted ==
    /\ pc = "loop"
    /\ attempt < POSTS_PER_RUN
    /\ mi_key_of(RuleLanguage(state.lang_counter), state)
          >= Len(msgs_of(RuleLanguage(state.lang_counter)))

\* C3: an attempt whose selected language has no unit left advances
\* lang_counter by 1, persists the state, issues no outbound call, leaves
\* h_index, e_index and img_index unchanged, raises nothing and stays in the
\* loop for the next attempt.
C3_LanguageSkip ==
    [][ LangExhausted =>
          /\ state'.lang_counter = state.lang_counter + 1
          /\ state'.h_msg_index = state.h_msg_index
          /\ state'.e_msg_index = state.e_msg_index
          /\ state'.img_index = state.img_index
          /\ state_file' = FileOk(state')
          /\ calls' = calls
          /\ posted' = posted
          /\ failed' = failed
          /\ pc' = "loop"
          /\ attempt' = attempt + 1
      ]_vars

\* a skip happened with attempts left in the run and images still available
C3_Witness ==
    /\ outcome = "skip"
    /\ pc = "loop"
    /\ attempt < POSTS_PER_RUN
    /\ state.lang_counter = before.s.lang_counter + 1
    /\ state.img_index < Len(images)
    /\ calls = before.calls

\* ---------------------------------------------------------------- C4
ImageExhausted ==
    /\ pc = "loop"
    /\ mi_key_of(RuleLanguage(state.lang_counter), state)
          < Len(msgs_of(RuleLanguage(state.lang_counter)))
    /\ state.img_index >= Len(images)

\* C4: once an attempt finds a unit to post but no image, nothing changes up
\* to the end of the run: every later step of the run issues no outbound call
\* and leaves the four cursors unchanged in memory and on disk.
C4_ImageExhaustionStopsRun ==
    [][ ImageExhausted =>
          /\ state' = state
          /\ state_file' = state_file
          /\ calls' = calls
          /\ posted' = posted
          /\ ImageExhausted' \/ pc' = "idle"
      ]_vars

\* a run used up the images, met the exhaustion and has ended
C4_Witness ==
    /\ outcome = "noimg"
    /\ pc = "idle"
    /\ Len(images) > 0
    /\ state.img_index = Len(images)
    /\ state_file = FileOk(before.s)
    /\ calls = before.calls

\* ---------------------------------------------------------------- C5
FailStep == pc \in {"photo", "text"} /\ outcome' = "fail"

\* C5: a failed outbound call ends the run at once (no further chunk, no
\* further attempt, no call before the next run starts) and changes no cursor:
\* memory and disk equal what they were before the attempt; the first attempt
\* of the next run selects the same language, unit and image and starts again
\* at the photo call.
C5_FailureAbortsRunKeepsState ==
    [][ /\ FailStep =>
            /\ pc' = "idle"
            /\ state' = before.s
            /\ state_file' = before.file
            /\ posted' = posted
            /\ sent' < cur_msg.nchunks
        /\ (outcome = "fail" /\ pc = "idle") =>
            /\ runs' = runs + 1
            /\ calls' = calls
            /\ state' = before.s
            /\ state_file' = before.file
        /\ (outcome = "fail" /\ pc = "loop") =>
            /\ attempt = 0
            /\ pc' = "photo"
            /\ sel' = sel
            /\ sent' = 0
            /\ state' = before.s
      ]_vars

\* a chunk call failed after the photo and the first chunk went out, and the
\* next run has published the same unit again in full
C5_Witness ==
    /\ failed
    /\ runs = 2
    /\ attempt = 0
    /\ pc = "commit"
    /\ sent = 2
    /\ calls = 6
    /\ posted = << <<sel.lang, sel.mi, sel.ii>> >>

\* ---------------------------------------------------------------- C6
Leq(s, t) ==
    /\ s.h_msg_index <= t.h_msg_index
    /\ s.e_msg_index <= t.e_msg_index
    /\ s.img_index <= t.img_index
    /\ s.lang_counter <= t.lang_counter

\* C6: no step of any run decreases h_index, e_index, img_index or
\* lang_counter, in memory or in the state file.
C6_CursorsNeverDecrease ==
    [][ Leq(state, state') /\ Leq(state_file.s, state_file'.s) ]_vars

\* a second run goes on from the cursors the first one saved, after a failure
C6_Witness ==
    /\ runs = 2
    /\ pc = "loop"
    /\ failed
    /\ state.h_msg_index >= 1
    /\ state.e_msg_index >= 1
    /\ state.lang_counter > state.img_index
    /\ state_file = FileOk(state)

\* ---------------------------------------------------------------- C7
AttemptEnded == outcome \in {"skip", "noimg", "ok", "fail"}

\* C7 as claimed: every attempt that selected a language has increased
\* lang_counter by exactly 1.
C7_EveryAttemptCounts ==
    AttemptEnded => state.lang_counter = before.s.lang_counter + 1

\* C7, amended: an attempt that ends in a successful post or in a language
\* skip increases lang_counter by exactly 1; one that ends in image exhaustion
\* or in a transmission failure leaves it unchanged; the language of an attempt
\* depends on lang_counter (and the ratio) alone.
C7_CounterPerCommittedDecision ==
    /\ outcome \in {"skip", "ok"} => state.lang_counter = before.s.lang_counter + 1
    /\ outcome \in {"noimg", "fail"} => state.lang_counter = before.s.lang_counter
    /\ AttemptEnded =>
         sel.lang = choose_language([ZeroState EXCEPT
                                       !.lang_counter = before.s.lang_counter])

\* all four endings: a skip or post counted, a failure did not, and the run
\* now stands at an image exhaustion that did not count either
C7_Witness ==
    /\ outcome = "noimg"
    /\ failed
    /\ Len(posted) >= 1
    /\ state.lang_counter > state.img_index
    /\ state.lang_counter = before.s.lang_counter

\* ---------------------------------------------------------------- C8
Scenario ==
    /\ Len(hindi_msgs) = 2
    /\ Len(eng_msgs) = 1
    /\ Len(images) = 3
    /\ RATIO = <<1, 1>>
    /\ POSTS_PER_RUN = 4
    /\ ~failed
    /\ runs = 1
    /\ pc = "idle"

\* C8: two Hindi units, one English unit, three images, ratio (1,1),
\* posts_per_run 4, no failure: the first run selects H,E,H,E, publishes
\* (Hindi#0,image0), (English#0,image1), (Hindi#1,image2), skips the fourth
\* attempt and leaves h_index 2, e_index 1, img_index 3, lang_counter 4 on disk.
C8_EndToEnd ==
    Scenario =>
        /\ chosen = <<"hindi", "english", "hindi", "english">>
        /\ posted = << <<"hindi", 0, images[1]>>, <<"english", 0, images[2]>>,
                       <<"hindi", 1, images[3]>> >>
        /\ images = <<0, 1, 2>>
        /\ outcome = "skip"
        /\ state_file = FileOk([h_msg_index |-> 2, e_msg_index |-> 1,
                                img_index |-> 3, lang_counter |-> 4])

\* the scenario's run has ended, with the long units sent in chunks
C8_Witness ==
    /\ Scenario
    /\ ~PREF_CAPTION
    /\ calls = 8

\* ---------------------------------------------------------------- C9
PublishedOnce(lang, k) ==
    \E j \in 1..Len(posted) : posted[j][1] = lang /\ posted[j][2] = k

\* C9: with crashes at any point and failing calls, whenever the state file
\* holds cursor k for a language, every unit of that language below k has
\* been fully published at least once (published units are never passed
\* over; a unit may be published more than once).
C9_AtLeastOnce ==
    state_file.kind = "ok" =>
        /\ \A k \in 0..(state_file.s.h_msg_index - 1) : PublishedOnce("hindi", k)
        /\ \A k \in 0..(state_file.s.e_msg_index - 1) : PublishedOnce("english", k)

\* a crash between the completed post and the state write made the next run
\* publish the same unit a second time, and the cursor has now passed it
C9_Witness ==
    /\ outcome = "ok"
    /\ ~failed
    /\ runs = 2
    /\ Len(posted) = 2
    /\ posted[1] = posted[2]
    /\ state_file.kind = "ok"
    /\ mi_key_of(sel.lang, state_file.s) = 1

\* --------------------------------------------------------------- C10
ratio_of(lang) == IF lang = "hindi" THEN RatioPair[1] ELSE RatioPair[2]

\* attempts the bounded model still makes, the one under way included
AttemptsLeft ==
    (MaxRuns - runs) * POSTS_PER_RUN
        + (IF pc = "idle" THEN 0 ELSE POSTS_PER_RUN - attempt)

\* language L is exhausted while unit k of language O waits, O has a share of
\* the rotation and an image is left
OtherPending(L, O, k) ==
    /\ mi_key_of(L, state) >= Len(msgs_of(L))
    /\ mi_key_of(O, state) = k
    /\ k < Len(msgs_of(O))
    /\ ratio_of(O) >= 1
    /\ state.img_index < Len(images)
    /\ AttemptsLeft >= RatioPair[1] + RatioPair[2]

OtherPosted(O, k) ==
    /\ state_file.kind = "ok"
    /\ mi_key_of(O, state_file.s) > k
    /\ PublishedOnce(O, k)

\* C10: in runs where no outbound call fails, when one language is exhausted
\* and the other still has unit k to post, a share of the rotation and an
\* image, then after finitely many attempts unit k is published and the other
\* language's cursor moves past it.
C10_ExhaustionDoesNotStall ==
    \A k \in 0..MaxUnits :
        /\ OtherPending("hindi", "english", k) ~> OtherPosted("english", k)
        /\ OtherPending("english", "hindi", k) ~> OtherPosted("hindi", k)

\* with ratio (3,1) and no Hindi unit, three skips were followed by the
\* publication of the first English unit
C10_Witness ==
    /\ RatioPair = <<3, 1>>
    /\ Len(hindi_msgs) = 0
    /\ outcome = "ok"
    /\ sel = [lang |-> "english", mi |-> 0, ii |-> 0]
    /\ state_file.s.lang_counter = 4
    /\ state_file.s.e_msg_index = 1
    /\ ~failed

\* --------------------------------------------------------------- C11
\* the calls the publish decision prescribes for a unit and an image
ExpectedCalls(msg, ii) ==
    IF PREF_CAPTION /\ msg.len <= CAP_LEN
    THEN << [op |-> "sendPhoto", arg |-> ii, caption |-> TRUE, ok |-> TRUE] >>
    ELSE << [op |-> "sendPhoto", arg |-> ii, caption |-> FALSE, ok |-> TRUE] >>
         \o [k \in 1..msg.nchunks |->
                [op |-> "sendMessage", arg |-> k - 1, caption |-> FALSE, ok |-> TRUE]]

\* C11: a unit within the caption limit, with the caption preference on, is
\* published by exactly one call, the image with the text as caption, and no
\* text call; any other unit by one image call without caption followed by
\* one text call per chunk, in chunk order, each issued after the previous
\* call returned.
C11_PublishDecision ==
    /\ pc = "commit" => out = ExpectedCalls(cur_msg, sel.ii)
    /\ pc \in {"photo", "text"} =>
          /\ Len(out) < Len(ExpectedCalls(cur_msg, sel.ii))
          /\ out = SubSeq(ExpectedCalls(cur_msg, sel.ii), 1, Len(out))
          /\ pc = "photo" <=> out = <<>>
    /\ outcome = "fail" =>
          /\ Len(out) >= 1
          /\ Len(out) <= Len(ExpectedCalls(cur_msg, sel.ii))
          /\ \A j \in 1..Len(out) :
                out[j] = [ExpectedCalls(cur_msg, sel.ii)[j] EXCEPT !.ok = (j < Len(out))]

\* a 30-character unit went out as one captioned image call, after a long
\* unit had taken an image call and two text calls
C11_Witness ==
    /\ PREF_CAPTION
    /\ pc = "commit"
    /\ cur_msg.len = 30
    /\ out = << [op |-> "sendPhoto", arg |-> 1, caption |-> TRUE, ok |-> TRUE] >>
    /\ calls = 4
    /\ ~failed

\* --------------------------------------------------------------- C12
FetchFailedStep == runs' = runs + 1 /\ fetch_err' # "none"

\* C12: when the fetch of one language's document fails on both retrieval
\* paths, the process does not end: the run goes on into the posting loop
\* (where that language counts as having zero units and the other language
\* can still be published).
C12_FetchFailureTolerated ==
    [][ FetchFailedStep => pc' = "loop" ]_vars

\* --------------------------------------------------------------- C13
PackDone == io.op = "pack" /\ io.done

IsSingleWord(c) == \A i \in 1..Len(c) : ~IsWS(c[i])

\* C13: every chunk the packer produces is at most max_len long, except a
\* chunk that is one single word longer than max_len.
C13_ChunksWithinLimit ==
    PackDone =>
        \A j \in 1..Len(io.chunks) :
            \/ Len(io.chunks[j]) <= io.max_len
            \/ IsSingleWord(io.chunks[j])

\* "a a a" is too long for 4: it is cut at a word boundary and its last piece
\* starts the buffer that then takes the next paragraph
C13_Witness ==
    /\ PackDone
    /\ io.text = <<"a", SP, "a", SP, "a", NL, NL, "a">>
    /\ io.max_len = 4
    /\ io.chunks = << <<"a", SP, "a">>, <<"a", NL, NL, "a">> >>

\* --------------------------------------------------------------- C14
RECURSIVE JoinBlank(_)
JoinBlank(cs) ==
    IF cs = <<>> THEN <<>>
    ELSE IF Len(cs) = 1 THEN cs[1]
    ELSE cs[1] \o <<NL, NL>> \o JoinBlank(Tail(cs))

\* the paragraphs of the text as the packer normalizes them
NormalParagraphs(text) ==
    LET ps == split_paragraphs(collapse_blank_lines(normalize_newlines(text)))
    IN  [k \in 1..Len(ps) |-> clean_paragraph(ps[k])]

WordsOfAll(cs) == Flatten([k \in 1..Len(cs) |-> split_words(cs[k])])

C15_RepackIsIdentity ==
    PackDone =>
        \A j \in 1..Len(io.chunks) :
            Len(io.chunks[j]) <= io.max_len
                => pack(io.chunks[j], io.max_len) = <<io.chunks[j]>>

\* a chunk made of two paragraphs was produced, next to a second chunk
C15_Witness ==
    /\ PackDone
    /\ io.max_len = 4
    /\ Len(io.chunks) = 2
    /\ io.chunks[1] = <<"a", NL, NL, "a">>
    /\ io.text # JoinBlank(io.chunks)

\* --------------------------------------------------------------- C16
SegDone == io.op = "split" /\ io.done

TextLines(s) == Pieces(s, {i \in 1..Len(s) : s[i] = NL})

\* a line that, trimmed, is 3 or more dash characters or 3 or more underscores
IsStrongSeparatorLine(l) ==
    LET c == strip(l)
    IN  Len(c) >= 3 /\ \A i \in 1..Len(c) : SameSepClass(c[1], c[i])

SeparatorLines(s) ==
    Cardinality({k \in 1..Len(TextLines(s)) : IsStrongSeparatorLine(TextLines(s)[k])})

NoDetectableSeparator(s, delim) ==
    /\ (is_custom_delim(delim) => delim_positions(s, unicode_escape(delim), 1) = {})
    /\ SeparatorLines(s) = 0
    /\ BlankRuns(s) = {}

SegTwoSeparators ==
    SegDone => (SeparatorLines(io.text) >= 2 => Len(io.units) >= 2)

SegNoSeparator ==
    (/\ SegDone
     /\ strip(io.text) # <<>>
     /\ NoDetectableSeparator(io.text, io.SPLIT_DELIM))
        => io.units = <<strip(io.text)>>

SegBlank == SegDone => (strip(io.text) = <<>> => io.units = <<>>)

SegNoEmptyUnit == SegDone => \A k \in 1..Len(io.units) : io.units[k] # <<>>

\* C16: 2 or more strong-separator lines give 2 or more units; a non-blank text
\* with no detectable separator gives one unit, the trimmed text; a blank text
\* gives no unit; no unit is empty.
C16_SegmenterUnitCounts ==
    /\ SegTwoSeparators
    /\ SegNoSeparator
    /\ SegBlank
    /\ SegNoEmptyUnit

\* --------------------------------------------------------------- C17
\* C17: nothing orders the writes of two overlapping runs: every step that
\* changes the cursors of a run leaves that run's own cursors in the state
\* file, whatever the file held, so a run that loaded before the other wrote
\* can publish the same unit/image pair and put an older cursor value back.
C17_LastWriterWins ==
    [][ /\ state' # state => state_file' = FileOk(state')
        /\ other'.state # other.state => state_file' = FileOk(other'.state)
        /\ state_file' # state_file =>
                state_file' \in {FileOk(state'), FileOk(other'.state)} ]_vars

\* both runs published the first Hindi unit with the first image, and the
\* file holds an image cursor below the one the first run had written
C17_Witness ==
    /\ pc = "idle"
    /\ other.pc = "done"
    /\ \E k \in 1..Len(posted) : \E j \in 1..Len(other.posted) : posted[k] = other.posted[j]
    /\ outcome = "ok"
    /\ state_file.kind = "ok"
    /\ state_file.s.img_index < state.img_index
    /\ state_file.s = other.state

\* --------------------------------------------------------------- C18
ImagesExhausted == state.img_index >= Len(images)

LanguageExhausted ==
    mi_key_of(choose_language(state), state) >= Len(msgs_of(choose_language(state)))

AttemptDue == pc = "loop" /\ attempt < POSTS_PER_RUN

\* C18: an attempt that finds both the selected language and the images
\* exhausted is a language skip (lang_counter + 1, persisted, the run goes on);
\* once the images are exhausted and the selected language has a unit left,
\* the state does not change any more.
C18_LanguageCheckedFirst ==
    [][ /\ (AttemptDue /\ LanguageExhausted /\ ImagesExhausted) =>
              /\ state' = [state EXCEPT !.lang_counter = @ + 1]
              /\ state_file' = FileOk(state')
              /\ outcome' = "skip"
              /\ attempt' = attempt + 1
              /\ pc' = "loop"
        /\ (ImagesExhausted /\ ~LanguageExhausted) =>
              /\ state' = state
              /\ state_file'.s = state_file.s
              /\ ImagesExhausted' /\ ~LanguageExhausted' ]_vars

\* no image at all and no Hindi unit: the first attempt was a skip that moved
\* lang_counter to 1, the second selected English and found no image
C18_Witness ==
    /\ Len(images) = 0
    /\ Len(hindi_msgs) = 0
    /\ chosen = <<"hindi", "english">>
    /\ outcome = "noimg"
    /\ skips = 1
    /\ state.lang_counter = 1
    /\ state.img_index = 0
    /\ state_file = FileOk(state)
    /\ pc = "loop"

\* --------------------------------------------------------------- C19
\* the posts whose cursors have been advanced and saved
Committed == IF pc = "commit" THEN SubSeq(posted, 1, Len(posted) - 1) ELSE posted

\* C19: from the all-zero state, the persisted state always has
\* img_index = h_msg_index + e_msg_index and lang_counter = img_index + the
\* number of language skips, and each image index below img_index belongs to
\* exactly one committed post.
C19_CounterAccounting ==
    LET s == state_file.s IN
    /\ s.img_index = s.h_msg_index + s.e_msg_index
    /\ s.lang_counter = s.img_index + skips
    /\ s.lang_counter >= s.img_index
    /\ Len(Committed) = s.img_index
    /\ \A i \in 0..(s.img_index - 1) :
          Cardinality({k \in 1..Len(Committed) : Committed[k][3] = i}) = 1

\* two posts and one skip are in the persisted state
C19_Witness ==
    /\ state_file.kind = "ok"
    /\ state_file.s.img_index = 2
    /\ state_file.s.lang_counter = 3
    /\ skips = 1
    /\ Len(posted) = 2
    /\ posted[1][3] = 0
    /\ posted[2][3] = 1
    /\ pc = "idle"

\* --------------------------------------------------------------- C20
CursorsWithin(s) ==
    /\ s.h_msg_index <= Len(hindi_msgs)
    /\ s.e_msg_index <= Len(eng_msgs)
    /\ s.img_index <= Len(images)

\* C20: started on a state whose cursors do not exceed the lengths of the
\* documents and of the image list, the cursors never exceed them, and every
\* unit index and image index used in a publish lies inside its sequence.
C20_CursorsInBounds ==
    /\ pc # "idle" => CursorsWithin(state)
    /\ state_file.kind = "ok" => CursorsWithin(state_file.s)
    /\ pc \in {"photo", "text", "commit"} =>
          /\ sel.mi \in 0..(Len(msgs_of(sel.lang)) - 1)
          /\ sel.ii \in 0..(Len(images) - 1)
    /\ \A k \in 1..Len(out) :
          out[k].op = "sendPhoto" => out[k].arg \in 0..(Len(images) - 1)
    /\ \A k \in 1..Len(posted) :
          /\ posted[k][2] \in 0..(Len(msgs_of(posted[k][1])) - 1)
          /\ posted[k][3] \in 0..(Len(images) - 1)

\* started on a file with cursors already advanced, the run published the
\* last Hindi unit with the last image and both cursors reached the lengths
C20_Witness ==
    /\ Len(images) = MaxImages
    /\ Len(hindi_msgs) = MaxUnits
    /\ Len(posted) = 1
    /\ posted[1] = <<"hindi", MaxUnits - 1, MaxImages - 1>>
    /\ state.h_msg_index = MaxUnits
    /\ state.img_index = MaxImages
    /\ state_file = FileOk(state)
    /\ pc = "idle"

====
